---- MODULE Spec2Model ----
(***************************************************************************)
(* A model of weather.py: the NWS fetcher make_nws_request, the formatter  *)
(* format_alert and the two tool handlers get_alerts and get_forecast.     *)
(*                                                                         *)
(* Python values are records tagged with their type (ty), the payload in  *)
(* a field of the type's own (s, n, d, l).  A text is the sequence of the  *)
(* string pieces an f-string or a join puts one after the other (the text  *)
(* itself is their concatenation, see Text).  A handler call is a process  *)
(* that suspends only inside make_nws_request (entering the client, the    *)
(* GET, leaving the client), as the coroutine does.  A fetch is one call   *)
(* of make_nws_request.                                                    *)
(***************************************************************************)
EXTENDS Integers, Sequences, FiniteSets, TLC

VARIABLES
    pc,        \* per call: where the coroutine stands
    tool,      \* per call: the handler invoked ("" before the call)
    args,      \* per call: the arguments of the invocation
    stage,     \* per call: which fetch of the handler is under way
    url,       \* per call: make_nws_request's parameter url
    client,    \* per call: the AsyncClient bound by "async with ... as client"
    conns,     \* the connection resources that are open
    used,      \* history: <<connection, call>> for every GET issued
    log,       \* history, per call: the URLs make_nws_request was called with
    got,       \* history, per call: what befell each fetch (see ClientRaises,
               \* GetThrows, GetAnswers)
    ret,       \* per call: what make_nws_request hands to the handler
    outcome    \* per call: the handler's result (a returned text or an error)

vars == <<pc, tool, args, stage, url, client, conns, used, log, got, ret, outcome>>

---------------------------------------------------------------------------
(* Bounds of the model. *)

\* handler calls the dispatcher may have running at once
NumCalls == 2
\* longest features array of an alerts response
MaxFeatures == 3
\* longest periods array of a forecast response
MaxPeriods == 6

Calls == 1..NumCalls

---------------------------------------------------------------------------
(* Python values. *)

None == [ty |-> "NoneType"]
PyStr(s) == [ty |-> "str", s |-> s]
PyInt(n) == [ty |-> "int", n |-> n]
PyDict(f) == [ty |-> "dict", d |-> f]
PyList(s) == [ty |-> "list", l |-> s]
\* a response body that is not JSON
Malformed == [ty |-> "malformed"]

EmptyDict == PyDict([k \in {} |-> None])
EmptyList == PyList(<<>>)

\* bool(x): None, "", 0, {} and [] are false
PyTruthy(x) ==
    CASE x.ty = "NoneType" -> FALSE
      [] x.ty = "str" -> x.s # ""
      [] x.ty = "int" -> x.n # 0
      [] x.ty = "dict" -> DOMAIN x.d # {}
      [] x.ty = "list" -> Len(x.l) > 0

\* str(x), as an f-string renders a value
PyFormat(x) ==
    CASE x.ty = "NoneType" -> "None"
      [] x.ty = "str" -> x.s
      [] x.ty = "int" -> ToString(x.n)

\* key in d
PyIn(key, d) == key \in DOMAIN d.d

\* d.get(key, default)
PyGet(d, key, default) == IF PyIn(key, d) THEN d.d[key] ELSE default

\* repr of a float with one decimal digit, held as a number of tenths
FloatRepr(t) ==
    LET a == IF t < 0 THEN -t ELSE t
    IN  (IF t < 0 THEN "-" ELSE "") \o ToString(a \div 10) \o "." \o ToString(a % 10)

\* how a computation ends: a returned value or a raised exception
Return(v) == [kind |-> "return", value |-> v]
Raise(e) == [kind |-> "raise", exc |-> e]
Pending == [kind |-> "pending"]

\* s[-1]
Last(s) == s[Len(s)]

\* sep.join(blocks), blocks and result being texts
RECURSIVE Join(_, _)
Join(blocks, sep) ==
    IF Len(blocks) = 0 THEN <<>>
    ELSE IF Len(blocks) = 1 THEN blocks[1]
    ELSE blocks[1] \o <<sep>> \o Join(Tail(blocks), sep)

\* the string a text stands for
RECURSIVE Text(_)
Text(t) == IF Len(t) = 0 THEN "" ELSE t[1] \o Text(Tail(t))

---------------------------------------------------------------------------
(* Constants of the program. *)

NWS_API_BASE == "https://api.weather.gov"
Separator == "\n--\n"
\* periods[:5]
ShownPeriods == 5

UnableAlerts == "Unable to fetch alerts or no alerts found."
NoAlerts == "No active alerts for this state."
UnablePoints == "Unable to fetch points data for this location"
NoForecast == "No forecast data available for this location"
UnableForecast == "Unable to get forecast data for this location"

---------------------------------------------------------------------------
(* The fetcher: make_nws_request.                                          *)
(* What befalls a call of it is a record [at, exc, status, body]: at is    *)
(* "client" when "httpx.AsyncClient()" raises exc on entering the "async   *)
(* with", before any GET; at is "get" when the client was built and        *)
(* "await client.get(...)" threw exc ("" when it answered), status and     *)
(* body being those of the response.                                       *)

ClientRaises(e) == [at |-> "client", exc |-> e, status |-> 0, body |-> None]
GetThrows(e) == [at |-> "get", exc |-> e, status |-> 0, body |-> None]
GetAnswers(status, body) == [at |-> "get", exc |-> "", status |-> status, body |-> body]

\* what building the client raises when the proxy settings of the environment
\* are unusable: an unknown proxy scheme, a SOCKS proxy without its package
ClientErrors == {"ValueError", "ImportError"}
FewClientErrors == {"ValueError"}

\* the classes "except Exception" does not catch: the builtin classes that
\* derive from BaseException and not from Exception, and asyncio's
\* CancelledError
BaseExceptionOnly ==
    {"BaseExceptionGroup", "CancelledError", "GeneratorExit", "KeyboardInterrupt", "SystemExit"}

\* "except Exception" catches e
IsException(e) == e \notin BaseExceptionOnly

\* response.raise_for_status(): an error unless the status is a success (2xx)
raise_for_status(o) ==
    IF 200 <= o.status /\ o.status <= 299 THEN Return(None) ELSE Raise("HTTPStatusError")

\* response.json(): the parsed body, or a decoding error
response_json(o) ==
    IF o.body.ty = "malformed" THEN Raise("JSONDecodeError") ELSE Return(o.body)

\* the try block: get, raise_for_status, return response.json()
TryBlock(o) ==
    IF o.exc # "" THEN Raise(o.exc)
    ELSE IF raise_for_status(o).kind = "raise" THEN raise_for_status(o)
    ELSE response_json(o)

\* "async with httpx.AsyncClient() as client" stands outside the try: what it
\* raises leaves the function.  Inside, the try block under its handler:
\* "except Exception: return None"
make_nws_request(o) ==
    IF o.at = "client" THEN Raise(o.exc)
    ELSE LET t == TryBlock(o)
         IN  IF t.kind = "raise" /\ IsException(t.exc) THEN Return(None) ELSE t

---------------------------------------------------------------------------
(* The formatter: format_alert. *)

\* the five lines of an alert; feature carries a properties object, as every
\* feature of the answers below does
format_alert(feature) ==
    LET props == feature.d["properties"]
    IN  << "\nEvent: ", PyFormat(PyGet(props, "event", PyStr("Unknown"))),
           "\nArea: ", PyFormat(PyGet(props, "areaDesc", PyStr("Unknown"))),
           "\nSeverity: ", PyFormat(PyGet(props, "severity", PyStr("Unknown"))),
           "\nDescription: ",
           PyFormat(PyGet(props, "description", PyStr("No description available"))),
           "\nInstructions: ",
           PyFormat(PyGet(props, "instruction", PyStr("No specific instructions provided"))),
           "\n" >>

---------------------------------------------------------------------------
(* get_alerts. *)

alerts_url(state) == NWS_API_BASE \o "/alerts/active/area/" \o state

\* s without the entries that repeat an earlier one
RECURSIVE Distinct(_)
Distinct(s) ==
    IF Len(s) = 0 THEN <<>>
    ELSE LET front == Distinct(SubSeq(s, 1, Len(s) - 1))
         IN  IF \E i \in 1..Len(s) - 1 : s[i] = Last(s) THEN front ELSE Append(front, Last(s))

\* get_alerts formatting each distinct alert once
AlertsBodyDistinct(data) ==
    IF ~PyTruthy(data) THEN Return(<<UnableAlerts>>)
    ELSE IF ~PyIn("features", data) THEN Return(<<UnableAlerts>>)
    ELSE IF ~PyTruthy(data.d["features"]) THEN Return(<<NoAlerts>>)
    ELSE LET features == Distinct(data.d["features"].l)
             alerts == [i \in 1..Len(features) |-> format_alert(features[i])]
         IN  Return(Join(alerts, Separator))

\* the handler from the value of data on: the two guards, then the join
AlertsBody(data) ==
    IF ~PyTruthy(data) THEN Return(<<UnableAlerts>>)
    ELSE IF ~PyIn("features", data) THEN Return(<<UnableAlerts>>)
    ELSE IF ~PyTruthy(data.d["features"]) THEN Return(<<NoAlerts>>)
    ELSE LET features == data.d["features"].l
             alerts == [i \in 1..Len(features) |-> format_alert(features[i])]
         IN  Return(Join(alerts, Separator))

---------------------------------------------------------------------------
(* get_forecast. *)

points_url(latitute, longtitude) ==
    NWS_API_BASE \o "/points/" \o FloatRepr(latitute) \o "," \o FloatRepr(longtitude)

\* points_data.get("properties", {}).get("forecast")
forecast_url(points_data) == PyGet(PyGet(points_data, "properties", EmptyDict), "forecast", None)

\* after the first fetch: an early text, or the URL of the second fetch
\* ([kind |-> "fetch", url |-> url])
AfterPoints(points_data) ==
    IF ~PyTruthy(points_data) THEN Return(<<UnablePoints>>)
    ELSE IF ~PyTruthy(forecast_url(points_data)) THEN Return(<<NoForecast>>)
    ELSE [kind |-> "fetch", url |-> forecast_url(points_data).s]

\* the keys the f-string of a period looks up, in the order it does
PeriodKeys == <<"name", "temperature", "temperatureUnit", "windSpeed", "windDirection",
                "detailedForecast">>

\* the first key of the f-string that period lacks (0 when it has them all)
MissingKey(period) ==
    LET missing == {i \in 1..Len(PeriodKeys) : ~PyIn(PeriodKeys[i], period)}
    IN  IF missing = {} THEN 0 ELSE CHOOSE i \in missing : \A j \in missing : i <= j

\* the f-string of one period
format_period(period) ==
    << "\n", PyFormat(period.d["name"]),
       ":\nTempature: ", PyFormat(period.d["temperature"]),
       "Â°", PyFormat(period.d["temperatureUnit"]),
       "\nWind: ", PyFormat(period.d["windSpeed"]), " ", PyFormat(period.d["windDirection"]),
       "\nForecast: ", PyFormat(period.d["detailedForecast"]),
       "\n" >>

\* periods[:5]
FirstPeriods(periods) ==
    SubSeq(periods, 1, IF Len(periods) < ShownPeriods THEN Len(periods) ELSE ShownPeriods)

\* a loop that passes over a period that lacks a key
RECURSIVE ForLoopSkipping(_, _)
ForLoopSkipping(rest, forecasts) ==
    IF Len(rest) = 0 THEN Return(Join(forecasts, Separator))
    ELSE IF MissingKey(Head(rest)) # 0 THEN ForLoopSkipping(Tail(rest), forecasts)
    ELSE ForLoopSkipping(Tail(rest), Append(forecasts, format_period(Head(rest))))

\* the for loop: forecasts grows by one block per period; a period that lacks
\* a key ends the loop and the handler with a KeyError
RECURSIVE ForLoop(_, _)
ForLoop(rest, forecasts) ==
    IF Len(rest) = 0 THEN Return(Join(forecasts, Separator))
    ELSE IF MissingKey(Head(rest)) # 0 THEN Raise("KeyError")
    ELSE ForLoop(Tail(rest), Append(forecasts, format_period(Head(rest))))

\* after the second fetch: the guard, then the loop over periods[:5]
AfterForecast(forecast_data) ==
    IF ~PyTruthy(forecast_data) THEN Return(<<UnableForecast>>)
    ELSE LET periods == PyGet(PyGet(forecast_data, "properties", EmptyDict),
                              "periods", EmptyList).l
         IN  ForLoop(FirstPeriods(periods), <<>>)

---------------------------------------------------------------------------
(* What the upstream may answer.  JSON values have the shapes the NWS API  *)
(* documents: every optional member may be missing, an alert's members may *)
(* be null, a period may lack any one of its members.                      *)

AlertKeys == {"event", "areaDesc", "severity", "description", "instruction"}

SampleValue(key) ==
    CASE key = "event" -> "Flood Warning"
      [] key = "areaDesc" -> "Travis, TX"
      [] key = "severity" -> "Severe"
      [] key = "description" -> "River rising."
      [] key = "instruction" -> "Move to higher ground."

\* an alert feature whose properties hold the keys in present, those in nulls as null
Feature(present, nulls) ==
    PyDict([properties |->
        PyDict([k \in present |-> IF k \in nulls THEN None ELSE PyStr(SampleValue(k))])])

\* every choice of missing, null or string for each of the five members
AllFeatures == {Feature(p, n) : <<p, n>> \in {pn \in (SUBSET AlertKeys) \X (SUBSET AlertKeys) :
                                                  pn[2] \subseteq pn[1]}}

FeatureA == Feature(AlertKeys, {})
FeatureB == Feature({"event", "instruction"}, {"instruction"})
FeatureC == Feature({}, {})

\* the sequences over S of length 0..n
SeqsUpTo(S, n) == UNION {[1..k -> S] : k \in 0..n}

FeatureLists == SeqsUpTo({FeatureA, FeatureB, FeatureC}, MaxFeatures)
                    \cup {<<f>> : f \in AllFeatures}

AlertsBodies ==
    {EmptyDict, PyDict([type |-> PyStr("FeatureCollection")])}
        \cup {PyDict([type |-> PyStr("FeatureCollection"), features |-> PyList(fs)]) :
                 fs \in FeatureLists}

ForecastUrls == {NWS_API_BASE \o "/gridpoints/EWX/1,2/forecast",
                 NWS_API_BASE \o "/gridpoints/LWX/3,4/forecast"}

PointsBodies ==
    {EmptyDict, PyDict([id |-> PyStr("point")]), PyDict([properties |-> EmptyDict]),
     PyDict([properties |-> PyDict([cwa |-> PyStr("EWX")])])}
        \cup {PyDict([properties |-> PyDict([forecast |-> PyStr(u)])]) : u \in ForecastUrls}

PeriodA == PyDict([name |-> PyStr("Tonight"), temperature |-> PyInt(55),
                   temperatureUnit |-> PyStr("F"), windSpeed |-> PyStr("5 mph"),
                   windDirection |-> PyStr("SW"), detailedForecast |-> PyStr("Clear.")])
PeriodB == PyDict([name |-> PyStr("Friday"), temperature |-> PyInt(-3),
                   temperatureUnit |-> PyStr("C"), windSpeed |-> PyStr("10 to 15 mph"),
                   windDirection |-> PyStr("N"), detailedForecast |-> PyStr("Snow.")])

\* period without the member key
Without(period, key) == PyDict([k \in DOMAIN period.d \ {key} |-> period.d[k]])

BadPeriods == {Without(PeriodA, PeriodKeys[i]) : i \in 1..Len(PeriodKeys)}

\* the arrays of well-formed periods, and those with one ill-formed period
PeriodLists ==
    LET good == SeqsUpTo({PeriodA, PeriodB}, MaxPeriods)
    IN  good \cup {[ps EXCEPT ![i] = b] : <<ps, i, b>> \in
                      {t \in good \X (1..MaxPeriods) \X BadPeriods : t[2] <= Len(t[1])}}

ForecastBodies ==
    {EmptyDict, PyDict([type |-> PyStr("Feature")]), PyDict([properties |-> EmptyDict])}
        \cup {PyDict([properties |-> PyDict([periods |-> PyList(ps)])]) : ps \in PeriodLists}

\* the ways a GET fails: it throws, it times out, the status is no success,
\* the body is no JSON; and a GET out of which comes an exception that is no
\* Exception (the awaiting task is cancelled, a group of such exceptions)
Failures(body) ==
    {GetThrows("ConnectError"), GetThrows("ReadTimeout"),
     GetThrows("CancelledError"), GetThrows("BaseExceptionGroup"),
     GetAnswers(404, body), GetAnswers(500, Malformed), GetAnswers(200, Malformed)}

\* every answer to the GET of a stage
Outcomes(stg) ==
    LET bodies == CASE stg = "alerts" -> AlertsBodies
                    [] stg = "points" -> PointsBodies
                    [] stg = "forecast" -> ForecastBodies
    IN  Failures(CHOOSE b \in bodies : PyTruthy(b)) \cup {GetAnswers(200, b) : b \in bodies}

\* a few answers to the GET of a stage, for calls that run side by side
FewOutcomes(stg) ==
    LET bodies ==
          CASE stg = "alerts" ->
                   {EmptyDict, PyDict([features |-> EmptyList]),
                    PyDict([features |-> PyList(<<FeatureA, FeatureB>>)])}
            [] stg = "points" ->
                   {PyDict([properties |-> EmptyDict]),
                    PyDict([properties |->
                              PyDict([forecast |-> PyStr(CHOOSE u \in ForecastUrls : TRUE)])])}
            [] stg = "forecast" ->
                   {PyDict([properties |-> PyDict([periods |-> PyList(<<PeriodA, PeriodB>>)])]),
                    PyDict([properties |->
                              PyDict([periods |-> PyList(<<Without(PeriodA, "name")>>)])])}
    IN  {GetThrows("ConnectError"), GetAnswers(404, CHOOSE b \in bodies : PyTruthy(b))}
            \cup {GetAnswers(200, b) : b \in bodies}

States == {"CA", "NY"}
\* latitude and longitude, in tenths of a degree
Coordinates == {<<389, -770>>, <<5, 0>>}

FewStates == {"CA"}
FewCoordinates == {<<389, -770>>}

---------------------------------------------------------------------------
(* The calls.  pc: "idle" (not yet invoked), "enter" (about to enter the   *)
(* "async with"), "get" (about to await client.get), "wait" (the GET is in *)
(* flight), "exit" (about to leave the "async with"), "resume"             *)
(* (make_nws_request has returned to the handler), "done".                 *)

NoClient == <<0, 0>>

Init ==
    /\ pc = [c \in Calls |-> "idle"]
    /\ tool = [c \in Calls |-> ""]
    /\ args = [c \in Calls |-> <<>>]
    /\ stage = [c \in Calls |-> ""]
    /\ url = [c \in Calls |-> ""]
    /\ client = [c \in Calls |-> NoClient]
    /\ conns = {}
    /\ used = {}
    /\ log = [c \in Calls |-> <<>>]
    /\ got = [c \in Calls |-> <<>>]
    /\ ret = [c \in Calls |-> Pending]
    /\ outcome = [c \in Calls |-> Pending]

\* the dispatcher invokes get_alerts(state): the URL is built and
\* make_nws_request is called
get_alerts(c, state) ==
    /\ pc[c] = "idle"
    /\ tool' = [tool EXCEPT ![c] = "get_alerts"]
    /\ args' = [args EXCEPT ![c] = <<state>>]
    /\ stage' = [stage EXCEPT ![c] = "alerts"]
    /\ url' = [url EXCEPT ![c] = alerts_url(state)]
    /\ log' = [log EXCEPT ![c] = Append(@, alerts_url(state))]
    /\ pc' = [pc EXCEPT ![c] = "enter"]
    /\ UNCHANGED <<client, conns, used, got, ret, outcome>>

\* the dispatcher invokes get_forecast(latitute, longtitude)
get_forecast(c, latitute, longtitude) ==
    /\ pc[c] = "idle"
    /\ tool' = [tool EXCEPT ![c] = "get_forecast"]
    /\ args' = [args EXCEPT ![c] = <<latitute, longtitude>>]
    /\ stage' = [stage EXCEPT ![c] = "points"]
    /\ url' = [url EXCEPT ![c] = points_url(latitute, longtitude)]
    /\ log' = [log EXCEPT ![c] = Append(@, points_url(latitute, longtitude))]
    /\ pc' = [pc EXCEPT ![c] = "enter"]
    /\ UNCHANGED <<client, conns, used, got, ret, outcome>>

\* async with httpx.AsyncClient() as client.  With e = "" the client is
\* built and a connection resource of the call's own is opened.  Otherwise
\* the constructor raises e: nothing is opened, no GET goes out, and, the
\* statement standing outside the try, e leaves make_nws_request
AsyncClientEnter(c, e) ==
    /\ pc[c] = "enter"
    /\ IF e = ""
       THEN /\ LET conn == <<c, Len(log[c])>>
               IN  /\ client' = [client EXCEPT ![c] = conn]
                   /\ conns' = conns \cup {conn}
            /\ pc' = [pc EXCEPT ![c] = "get"]
            /\ UNCHANGED <<got, ret>>
       ELSE /\ got' = [got EXCEPT ![c] = Append(@, ClientRaises(e))]
            /\ ret' = [ret EXCEPT ![c] = make_nws_request(ClientRaises(e))]
            /\ pc' = [pc EXCEPT ![c] = "resume"]
            /\ UNCHANGED <<client, conns>>
    /\ UNCHANGED <<tool, args, stage, url, used, log, outcome>>

\* await client.get(url, ...): the request goes out on the call's client
ClientGet(c) ==
    /\ pc[c] = "get"
    /\ client[c] \in conns
    /\ used' = used \cup {<<client[c], c>>}
    /\ pc' = [pc EXCEPT ![c] = "wait"]
    /\ UNCHANGED <<tool, args, stage, url, client, conns, log, got, ret, outcome>>

\* a fetcher that keeps its result in one place for all calls
GetCompletesShared(c, o) ==
    /\ pc[c] = "wait"
    /\ got' = [got EXCEPT ![c] = Append(@, o)]
    /\ ret' = [k \in Calls |-> make_nws_request(o)]
    /\ pc' = [pc EXCEPT ![c] = "exit"]
    /\ UNCHANGED <<tool, args, stage, url, client, conns, used, log, outcome>>

\* the GET ends as o; raise_for_status, json and the except clause decide
\* what make_nws_request will return
GetCompletes(c, o) ==
    /\ pc[c] = "wait"
    /\ got' = [got EXCEPT ![c] = Append(@, o)]
    /\ ret' = [ret EXCEPT ![c] = make_nws_request(o)]
    /\ pc' = [pc EXCEPT ![c] = "exit"]
    /\ UNCHANGED <<tool, args, stage, url, client, conns, used, log, outcome>>

\* a fetcher that closes its client on the success path only
AsyncClientExitLeaky(c) ==
    /\ pc[c] = "exit"
    /\ conns' = IF ret[c] = Return(None) THEN conns ELSE conns \ {client[c]}
    /\ pc' = [pc EXCEPT ![c] = "resume"]
    /\ UNCHANGED <<tool, args, stage, url, client, used, log, got, ret, outcome>>

\* the "async with" block is left: the connection is released and
\* make_nws_request returns to the handler
AsyncClientExit(c) ==
    /\ pc[c] = "exit"
    /\ conns' = conns \ {client[c]}
    /\ pc' = [pc EXCEPT ![c] = "resume"]
    /\ UNCHANGED <<tool, args, stage, url, client, used, log, got, ret, outcome>>

\* get_alerts from "data = await ..." to its return
get_alerts_resume(c) ==
    /\ pc[c] = "resume"
    /\ stage[c] = "alerts"
    /\ outcome' = [outcome EXCEPT ![c] =
                      IF ret[c].kind = "raise" THEN ret[c] ELSE AlertsBody(ret[c].value)]
    /\ pc' = [pc EXCEPT ![c] = "done"]
    /\ UNCHANGED <<tool, args, stage, url, client, conns, used, log, got, ret>>

\* a get_forecast that fetches the points URL once more when the fetch failed
get_forecast_points_retry(c) ==
    /\ pc[c] = "resume"
    /\ stage[c] = "points"
    /\ LET r == IF ret[c].kind = "raise" THEN ret[c] ELSE AfterPoints(ret[c].value)
       IN  IF r.kind = "fetch"
           THEN /\ url' = [url EXCEPT ![c] = r.url]
                /\ log' = [log EXCEPT ![c] = Append(@, r.url)]
                /\ stage' = [stage EXCEPT ![c] = "forecast"]
                /\ pc' = [pc EXCEPT ![c] = "enter"]
                /\ UNCHANGED outcome
           ELSE IF ret[c] = Return(None) /\ Len(log[c]) < 2
           THEN /\ log' = [log EXCEPT ![c] = Append(@, url[c])]
                /\ pc' = [pc EXCEPT ![c] = "enter"]
                /\ UNCHANGED <<url, stage, outcome>>
           ELSE /\ outcome' = [outcome EXCEPT ![c] = r]
                /\ pc' = [pc EXCEPT ![c] = "done"]
                /\ UNCHANGED <<url, stage, log>>
    /\ UNCHANGED <<tool, args, client, conns, used, got, ret>>

\* get_forecast from "points_data = await ..." to an early return or to the
\* call of make_nws_request(forecast_url)
get_forecast_points(c) ==
    /\ pc[c] = "resume"
    /\ stage[c] = "points"
    /\ LET r == IF ret[c].kind = "raise" THEN ret[c] ELSE AfterPoints(ret[c].value)
       IN  IF r.kind = "fetch"
           THEN /\ url' = [url EXCEPT ![c] = r.url]
                /\ log' = [log EXCEPT ![c] = Append(@, r.url)]
                /\ stage' = [stage EXCEPT ![c] = "forecast"]
                /\ pc' = [pc EXCEPT ![c] = "enter"]
                /\ UNCHANGED outcome
           ELSE /\ outcome' = [outcome EXCEPT ![c] = r]
                /\ pc' = [pc EXCEPT ![c] = "done"]
                /\ UNCHANGED <<url, stage, log>>
    /\ UNCHANGED <<tool, args, client, conns, used, got, ret>>

\* get_forecast from "forecast_data = await ..." to its return
get_forecast_periods(c) ==
    /\ pc[c] = "resume"
    /\ stage[c] = "forecast"
    /\ outcome' = [outcome EXCEPT ![c] =
                      IF ret[c].kind = "raise" THEN ret[c] ELSE AfterForecast(ret[c].value)]
    /\ pc' = [pc EXCEPT ![c] = "done"]
    /\ UNCHANGED <<tool, args, stage, url, client, conns, used, log, got, ret>>

\* the steps of a call that take no input
Step(c) ==
    \/ ClientGet(c)
    \/ AsyncClientExit(c)
    \/ get_alerts_resume(c)
    \/ get_forecast_points(c)
    \/ get_forecast_periods(c)

\* calls running side by side, each fetch ending in one of a few ways
Next ==
    \E c \in Calls :
        \/ \E state \in FewStates : get_alerts(c, state)
        \/ \E ll \in FewCoordinates : get_forecast(c, ll[1], ll[2])
        \/ \E e \in {""} \cup FewClientErrors : AsyncClientEnter(c, e)
        \/ pc[c] = "wait" /\ \E o \in FewOutcomes(stage[c]) : GetCompletes(c, o)
        \/ Step(c)

Spec == Init /\ [][Next]_vars

\* one call, each fetch ending in every way
NextOne ==
    \/ \E state \in States : get_alerts(1, state)
    \/ \E ll \in Coordinates : get_forecast(1, ll[1], ll[2])
    \/ \E e \in {""} \cup ClientErrors : AsyncClientEnter(1, e)
    \/ pc[1] = "wait" /\ \E o \in Outcomes(stage[1]) : GetCompletes(1, o)
    \/ Step(1)

SpecOne == Init /\ [][NextOne]_vars

---------------------------------------------------------------------------
(* What the properties speak of. *)

\* the fetch failed: the client could not be built, or the GET threw or
\* timed out, answered with a non-success status, or with a body that is no
\* JSON
IsFailure(o) == o.exc # "" \/ o.status < 200 \/ o.status > 299 \/ o.body.ty = "malformed"

HasKey(d, key) == d.ty = "dict" /\ key \in DOMAIN d.d

\* call c ran tool to its end
Finished(c, t) == tool[c] = t /\ pc[c] = "done"

\* the positions of the separator in a text, and the blocks between them
SeparatorsOf(text) == {i \in 1..Len(text) : text[i] = Separator}
NthSeparator(text, k) ==
    CHOOSE i \in SeparatorsOf(text) : Cardinality({j \in SeparatorsOf(text) : j < i}) = k - 1
BlocksOf(text) ==
    LET n == Cardinality(SeparatorsOf(text)) + 1
    IN  [k \in 1..n |->
            SubSeq(text,
                   IF k = 1 THEN 1 ELSE NthSeparator(text, k - 1) + 1,
                   IF k = n THEN Len(text) ELSE NthSeparator(text, k) - 1)]

\* the features array of a successful alerts answer (<<>> when it has none)
FeaturesOf(o) ==
    IF ~IsFailure(o) /\ HasKey(o.body, "features") /\ o.body.d["features"].ty = "list"
    THEN o.body.d["features"].l ELSE <<>>

HasFeaturesArray(o) ==
    ~IsFailure(o) /\ HasKey(o.body, "features") /\ o.body.d["features"].ty = "list"

\* properties.forecast of a successful points answer is there
HasForecastUrl(o) ==
    /\ ~IsFailure(o)
    /\ HasKey(o.body, "properties")
    /\ HasKey(o.body.d["properties"], "forecast")

\* properties.periods of a successful forecast answer (<<>> when absent)
PeriodsOf(o) ==
    IF /\ ~IsFailure(o)
       /\ HasKey(o.body, "properties")
       /\ HasKey(o.body.d["properties"], "periods")
    THEN o.body.d["properties"].d["periods"].l ELSE <<>>

Min(a, b) == IF a < b THEN a ELSE b

\* period has the six members a block is rendered from
WellFormed(period) == \A i \in 1..Len(PeriodKeys) : HasKey(period, PeriodKeys[i])

---------------------------------------------------------------------------
(* C1 *)

\* C1: make_nws_request never raises.  Whatever befell the fetch, what
\* reaches the handler is a returned value, never an exception; and whenever
\* the GET has thrown, timed out, answered with a non-success status or with
\* a body that is no JSON, that value is None.
C1_FetcherNeverRaises ==
    \A c \in Calls :
        pc[c] \in {"exit", "resume"} =>
            /\ ret[c].kind = "return"
            /\ IsFailure(Last(got[c])) => ret[c] = Return(None)
            /\ ~IsFailure(Last(got[c])) => ret[c] = Return(Last(got[c]).body)

---------------------------------------------------------------------------
(* C2 *)

\* C2: get_forecast returns "Unable to fetch points data for this location"
\* exactly when the points fetch failed, "No forecast data available for this
\* location" exactly when the points fetch succeeded with an object that has
\* no properties.forecast, and "Unable to get forecast data for this location"
\* exactly when the second fetch was made and failed.
C2_ForecastEarlyExits ==
    \A c \in Calls :
        Finished(c, "get_forecast") =>
            LET g == got[c]
                pointsFailed == IsFailure(g[1])
                noForecast == ~IsFailure(g[1]) /\ ~HasForecastUrl(g[1])
                forecastFailed == Len(g) = 2 /\ IsFailure(g[2])
            IN  /\ pointsFailed <=> outcome[c] = Return(<<UnablePoints>>)
                /\ noForecast <=> outcome[c] = Return(<<NoForecast>>)
                /\ forecastFailed <=> outcome[c] = Return(<<UnableForecast>>)

---------------------------------------------------------------------------
(* C3 *)

\* C3: get_alerts returns "Unable to fetch alerts or no alerts found." when the
\* fetch failed or the answer has no features array; otherwise "No active
\* alerts for this state." when the features array is empty; and anything
\* else (a formatted list) only when the features array is non-empty.
C3_AlertsLadder ==
    \A c \in Calls :
        Finished(c, "get_alerts") =>
            LET o == got[c][1]
            IN  /\ (IsFailure(o) \/ ~HasFeaturesArray(o)) =>
                       outcome[c] = Return(<<UnableAlerts>>)
                /\ (HasFeaturesArray(o) /\ Len(FeaturesOf(o)) = 0) =>
                       outcome[c] = Return(<<NoAlerts>>)
                /\ outcome[c] \notin {Return(<<UnableAlerts>>), Return(<<NoAlerts>>)} =>
                       HasFeaturesArray(o) /\ Len(FeaturesOf(o)) > 0
                /\ (HasFeaturesArray(o) /\ Len(FeaturesOf(o)) > 0) =>
                       outcome[c] \notin {Return(<<UnableAlerts>>), Return(<<NoAlerts>>)}

---------------------------------------------------------------------------
(* C4 *)

\* C4: for every successful forecast answer, with M the length of
\* properties.periods (0 when properties or periods is absent), get_forecast
\* returns the renderings of the first min(M, 5) periods, in their order,
\* joined by the separator.  (Stated for answers whose first min(M, 5) periods
\* can be rendered; C8 speaks of the others.)
C4_FirstFivePeriods ==
    \A c \in Calls :
        (/\ Finished(c, "get_forecast")
         /\ Len(got[c]) = 2
         /\ ~IsFailure(got[c][2])
         /\ \A i \in 1..Min(Len(PeriodsOf(got[c][2])), ShownPeriods) :
                WellFormed(PeriodsOf(got[c][2])[i])) =>
            LET periods == PeriodsOf(got[c][2])
                n == Min(Len(periods), ShownPeriods)
            IN  /\ outcome[c] = Return(Join([i \in 1..n |-> format_period(periods[i])],
                                           Separator))
                /\ n >= 1 => Len(BlocksOf(outcome[c].value)) = n

---------------------------------------------------------------------------
(* C5 *)

\* C5: for every alerts answer whose features array has N >= 1 entries,
\* get_alerts returns N blocks, the i-th being format_alert of the i-th
\* feature, joined by N - 1 separators.
C5_AlertBlocks ==
    \A c \in Calls :
        (Finished(c, "get_alerts") /\ Len(FeaturesOf(got[c][1])) >= 1) =>
            LET features == FeaturesOf(got[c][1])
                N == Len(features)
            IN  /\ outcome[c].kind = "return"
                /\ Cardinality(SeparatorsOf(outcome[c].value)) = N - 1
                /\ Len(BlocksOf(outcome[c].value)) = N
                /\ \A i \in 1..N : BlocksOf(outcome[c].value)[i] = format_alert(features[i])

\* three alerts, two of them the same, have been rendered
C5_Witness ==
    /\ Finished(1, "get_alerts")
    /\ FeaturesOf(got[1][1]) = <<FeatureB, FeatureA, FeatureB>>
    /\ outcome[1].kind = "return"

---------------------------------------------------------------------------
(* C6 *)

AlertLines == << <<"\nEvent: ", "event", "Unknown">>,
                 <<"\nArea: ", "areaDesc", "Unknown">>,
                 <<"\nSeverity: ", "severity", "Unknown">>,
                 <<"\nDescription: ", "description", "No description available">>,
                 <<"\nInstructions: ", "instruction", "No specific instructions provided">> >>

\* C6: each of the five lines of an alert block shows the member's value when
\* the member is present and not null, and the fixed fallback both when it is
\* missing and when it is null.
C6_AlertFallbacks ==
    \A c \in Calls :
        (Finished(c, "get_alerts") /\ Len(FeaturesOf(got[c][1])) >= 1) =>
            \A i \in 1..Len(FeaturesOf(got[c][1])) : \A k \in 1..Len(AlertLines) :
                LET props == FeaturesOf(got[c][1])[i].d["properties"]
                    key == AlertLines[k][2]
                    block == BlocksOf(outcome[c].value)[i]
                IN  /\ block[2 * k - 1] = AlertLines[k][1]
                    /\ block[2 * k] = IF HasKey(props, key) /\ props.d[key].ty # "NoneType"
                                      THEN props.d[key].s
                                      ELSE AlertLines[k][3]

---------------------------------------------------------------------------
(* C8 *)

\* C8: when the forecast fetch succeeds and one of the first min(M, 5) periods
\* lacks a required member, get_forecast ends in an error and returns no text;
\* when only periods from the sixth on lack a member, it returns a text.
C8_ShapeFailure ==
    \A c \in Calls :
        (/\ Finished(c, "get_forecast")
         /\ Len(got[c]) = 2
         /\ ~IsFailure(got[c][2])) =>
            LET periods == PeriodsOf(got[c][2])
                n == Min(Len(periods), ShownPeriods)
            IN  IF \E i \in 1..n : ~WellFormed(periods[i])
                THEN outcome[c].kind = "raise"
                ELSE outcome[c].kind = "return"

\* a period among the first five lacked a member and the call raised
C8_Witness ==
    /\ Finished(1, "get_forecast")
    /\ Len(got[1]) = 2
    /\ ~IsFailure(got[1][2])
    /\ \E i \in 1..Min(Len(PeriodsOf(got[1][2])), ShownPeriods) :
           ~WellFormed(PeriodsOf(got[1][2])[i])
    /\ outcome[1].kind = "raise"

---------------------------------------------------------------------------
(* C7 *)

\* the handler's continuation k applied to what make_nws_request gives when
\* its fetch ends as o; an exception passes through the handler
Await(o, k(_)) ==
    LET r == make_nws_request(o)
    IN  IF r.kind = "raise" THEN r ELSE k(r.value)

\* what a handler ends with when it runs alone and its fetches end as
\* answers[1], answers[2]: the handler's code from top to bottom
RunAlone(t, answers) ==
    IF t = "get_alerts"
    THEN Await(answers[1], AlertsBody)
    ELSE LET first == Await(answers[1], AfterPoints)
         IN  IF first.kind = "fetch"
             THEN Await(answers[2], AfterForecast)
             ELSE first

\* C7: the result of a call is a function of the handler and of what befell
\* the call's own fetches, under every interleaving of the calls: it is what
\* the handler ends with when run alone on the same, and two calls of one
\* handler whose fetches ended alike end with the same result.
C7_CallsIndependent ==
    /\ \A c \in Calls :
           pc[c] = "done" => outcome[c] = RunAlone(tool[c], got[c])
    /\ \A c, d \in Calls :
           (pc[c] = "done" /\ pc[d] = "done" /\ tool[c] = tool[d] /\ got[c] = got[d]) =>
               outcome[c] = outcome[d]

\* two calls of one handler, each with two fetches, were answered differently
\* and finished with different results
C7_Witness ==
    /\ pc[1] = "done" /\ pc[2] = "done"
    /\ tool[1] = tool[2]
    /\ got[1] # got[2]
    /\ outcome[1] # outcome[2]
    /\ used = {<<c, c[1]>> : c \in {<<1, 1>>, <<2, 1>>, <<1, 2>>, <<2, 2>>}}

---------------------------------------------------------------------------
(* C9 *)

\* the URL in properties.forecast of a points answer
ForecastUrlOf(o) == o.body.d["properties"].d["forecast"].s

\* the GETs call c has issued
GetsOf(c) == {u \in used : u[2] = c}

\* C9: get_alerts calls make_nws_request once, with its alerts URL.
\* get_forecast calls it once with its points URL and at most once more, only
\* after the points fetch succeeded with a properties.forecast, and with
\* exactly that URL.  No URL is fetched twice within a call, a fetch issues
\* at most one GET, and a finished call has no fetch under way.
C9_FetchOrder ==
    \A c \in Calls :
        /\ tool[c] = "" => log[c] = <<>>
        /\ tool[c] = "get_alerts" => log[c] = <<alerts_url(args[c][1])>>
        /\ (tool[c] = "get_forecast" /\ stage[c] = "points") =>
               /\ log[c] = <<points_url(args[c][1], args[c][2])>>
               /\ pc[c] = "done" => ~HasForecastUrl(got[c][1])
        /\ (tool[c] = "get_forecast" /\ stage[c] = "forecast") =>
               /\ HasForecastUrl(got[c][1])
               /\ log[c] = <<points_url(args[c][1], args[c][2]), ForecastUrlOf(got[c][1])>>
        /\ \A i, j \in 1..Len(log[c]) : log[c][i] = log[c][j] => i = j
        /\ Len(log[c]) <= 2
        /\ Len(got[c]) <= Len(log[c])
        /\ Len(log[c]) <= Len(got[c]) + 1
        /\ Cardinality(GetsOf(c)) <= Len(log[c])
        /\ pc[c] = "done" => Len(got[c]) = Len(log[c])

\* a forecast call has made its second fetch, to the URL of the points answer
C9_Witness ==
    /\ Finished(1, "get_forecast")
    /\ Len(log[1]) = 2
    /\ log[1][2] = ForecastUrlOf(got[1][1])
    /\ Finished(2, "get_alerts")

---------------------------------------------------------------------------
(* C10 *)

\* the connections call c holds open
OpenOf(c) == {k \in conns : k[1] = c}

\* C10: a connection is open only while its own make_nws_request is between
\* entering and leaving the "async with": none is open once the function has
\* returned or the handler has ended, whether the fetch succeeded or failed;
\* a GET goes out only on the connection of the call that issues it; and the
\* first fetch of get_forecast has released its connection before the second
\* opens its own.
C10_ConnectionScoped ==
    /\ \A c \in Calls :
           /\ pc[c] \in {"idle", "enter", "resume", "done"} => OpenOf(c) = {}
           /\ pc[c] \in {"get", "wait", "exit"} =>
                  /\ OpenOf(c) = {client[c]}
                  /\ client[c] = <<c, Len(log[c])>>
    /\ \A u \in used : u[1][1] = u[2]
    /\ \A k \in conns : k[1] \in Calls

\* a failed fetch has returned with its connection released, while another
\* call holds a connection open
C10_Witness ==
    /\ pc[1] = "resume"
    /\ Last(got[1]).at = "get"
    /\ IsFailure(Last(got[1]))
    /\ OpenOf(1) = {}
    /\ <<<<1, 1>>, 1>> \in used
    /\ OpenOf(2) # {}

====
